---- MODULE Spec2Model ----
(***************************************************************************)
(* Batch classification-and-evaluation pipeline of score_files.            *)
(*                                                                         *)
(*   SpecDriver : src/src/classify_images.py  main()                       *)
(*   SpecEval   : src/src/evaluate_accuracy.py main()                      *)
(*   SpecStats  : the three pure statistics functions of                   *)
(*                evaluate_accuracy.py applied to arbitrary record lists   *)
(*   SpecReaders  : src/src/utils.py load_answers_from_csv, and            *)
(*                  load_predictions_from_csv, each on any table           *)
(*   SpecAdapter  : src/src/utils.py call_vision_api                       *)
(*   SpecTemplate : src/src/create_answer_template.py main()               *)
(*   SpecRunAll   : src/run_all.py main() with the scripts it starts       *)
(*                                                                         *)
(* Text is a sequence of one-character strings, so that str.lower() and    *)
(* str.strip() are computed character by character.  A pred_confidence    *)
(* is kept in hundredths (0.9 is 90); quotients are exact fractions        *)
(* <<numerator, denominator>> in lowest terms.                             *)
(***************************************************************************)
EXTENDS Integers, Sequences, FiniteSets, TLC

VARIABLES
    \* ---- classify_images.main
    driver_pc,          \* position in main()
    answers_dict,       \* filename -> label, as returned by load_answers_from_csv
    image_files,        \* sorted list returned by get_image_files
    index,              \* enumerate(image_files, start=1)
    all_predictions,    \* list of prediction dicts
    skipped,            \* filenames reported "no label (skip)", in order
    api_calls,          \* filenames handed to classify_single_image, in order
    predictions_file,   \* data/predictions.csv: NoFile or its rows
    writes,             \* number of times save_predictions_to_csv ran
    \* ---- evaluate_accuracy.main
    eval_pc,            \* position in main() / load_predictions_from_csv
    csv_file,           \* the predictions table being read
    enc_index,          \* position in encodings_to_try
    enc_tried,          \* encodings handed to open(), in order
    predictions,        \* list built by load_predictions_from_csv
    accuracy_info,      \* result of calculate_overall_accuracy
    crop_statistics,    \* result of calculate_per_crop_statistics
    crop_report,        \* what display_per_crop_statistics printed
    misclassified_images,  \* result of find_misclassified_images
    \* ---- utils.load_answers_from_csv
    reader_pc,          \* position in load_answers_from_csv
    answer_csv,         \* the label table being read
    reader_enc,         \* position in encodings_to_try
    reader_tried,       \* encodings handed to open(), in order
    labels_dict,        \* the dictionary being built
    successful_encoding,  \* None, or the encoding that read the file
    warnings,           \* filenames of the blank-label warnings, in order
    \* ---- utils.call_vision_api
    api_pc,             \* position in call_vision_api
    api_response,       \* what client.chat.completions.create does
    response_text,      \* the stripped message content
    api_result,         \* the value call_vision_api returns
    \* ---- create_answer_template.main
    template_pc,        \* position in main()
    template_dir,       \* the img/ folder the generator scans
    template_files,     \* list returned by get_all_image_files
    answer_file,        \* data/answer.csv: missing, or its rows
    \* ---- run_all.main
    run_pc,             \* position in main()
    stages              \* the scripts run_script started, in order

driverVars == <<driver_pc, answers_dict, image_files, index, all_predictions,
                skipped, api_calls, predictions_file, writes>>
evalVars == <<eval_pc, csv_file, enc_index, enc_tried, predictions,
              accuracy_info,
              crop_statistics, crop_report, misclassified_images>>
readerVars == <<reader_pc, answer_csv, reader_enc, reader_tried, labels_dict,
                successful_encoding, warnings>>
adapterVars == <<api_pc, api_response, response_text, api_result>>
templateVars == <<template_pc, template_dir, template_files, answer_file>>
runVars == <<run_pc, stages>>
vars == <<driverVars, evalVars, readerVars, adapterVars, templateVars,
          runVars>>

\* the variables a script leaves alone
outsideDriver == <<evalVars, readerVars, adapterVars, templateVars, runVars>>
outsideEval == <<driverVars, readerVars, adapterVars, templateVars, runVars>>
outsideReader == <<driverVars, evalVars, adapterVars, templateVars, runVars>>
outsideAdapter == <<driverVars, evalVars, readerVars, templateVars, runVars>>
outsideTemplate == <<driverVars, evalVars, readerVars, adapterVars, runVars>>

----------------------------------------------------------------------------
(* Bounds of the model *)

\* number of distinct filenames a directory or a table may hold
NumFiles == 3
\* largest number of rows of a predictions table
MaxRows == 3

----------------------------------------------------------------------------
(* Text *)

UpperToLower ==
    [c \in {"A", "B", "E", "R", "O", "J", "P", "G", "N", "I", "F"} |->
        CASE c = "A" -> "a" [] c = "B" -> "b" [] c = "E" -> "e"
          [] c = "R" -> "r" [] c = "O" -> "o" [] c = "J" -> "j"
          [] c = "P" -> "p" [] c = "G" -> "g" [] c = "N" -> "n"
          [] c = "I" -> "i" [] c = "F" -> "f"]

\* a mutant of LowerChar: the comparison keeps the case
LowerCharKeepsCase(c) == c

\* str.lower(), one character
LowerChar(c) == IF c \in DOMAIN UpperToLower THEN UpperToLower[c] ELSE c

\* str.lower()
Lower(s) == [i \in 1..Len(s) |-> LowerChar(s[i])]

\* the sentinel 'ERROR' and the default 'unknown'
ERROR == <<"E", "R", "R", "O", "R">>
UNKNOWN == <<"u", "n", "k", "n", "o", "w", "n">>

----------------------------------------------------------------------------
(* Python / JSON values, all of one record shape *)

Str(s) == [t |-> "str", s |-> s, n |-> 0]
Num(n) == [t |-> "num", s |-> <<>>, n |-> n]
PyNone == [t |-> "none", s |-> <<>>, n |-> 0]
Missing == [t |-> "missing", s |-> <<>>, n |-> 0]

----------------------------------------------------------------------------
(* classify_images.py *)

\* Filename i stands for the i-th name in lexicographic order, so that
\* sorted(..., key=name) is ascending order of the numbers.
Filenames == 1..NumFiles

SUPPORTED_IMAGE_EXTENSIONS ==
    {<<".", "j", "p", "g">>, <<".", "j", "p", "e", "g">>, <<".", "p", "n", "g">>}

\* what a directory may hold under one name
NoEntry == [present |-> FALSE, is_file |-> FALSE, suffix |-> <<>>]
EntryKinds ==
    {[present |-> TRUE, is_file |-> TRUE, suffix |-> <<".", "j", "p", "g">>],
     [present |-> TRUE, is_file |-> TRUE, suffix |-> <<".", "P", "N", "G">>],
     [present |-> TRUE, is_file |-> TRUE, suffix |-> <<".", "g", "i", "f">>],
     [present |-> TRUE, is_file |-> FALSE, suffix |-> <<".", "j", "p", "g">>]}

\* the img/ folder: missing, or a name -> entry table
Dirs ==
    [exists : BOOLEAN, entries : [Filenames -> EntryKinds \cup {NoEntry}]]

validate_image_file(entry) ==
    IF ~entry.is_file THEN FALSE
    ELSE Lower(entry.suffix) \in SUPPORTED_IMAGE_EXTENSIONS

\* a mutant of SortedByName: the names come in descending order
RECURSIVE SortedByNameDescending(_)
SortedByNameDescending(S) ==
    IF S = {} THEN <<>>
    ELSE LET m == CHOOSE x \in S : \A y \in S : x >= y
         IN <<m>> \o SortedByNameDescending(S \ {m})

RECURSIVE SortedByName(_)
SortedByName(S) ==
    IF S = {} THEN <<>>
    ELSE LET m == CHOOSE x \in S : \A y \in S : x <= y
         IN <<m>> \o SortedByName(S \ {m})

get_image_files(dir) ==
    IF ~dir.exists THEN <<>>
    ELSE SortedByName({f \in Filenames :
                          /\ dir.entries[f].present
                          /\ validate_image_file(dir.entries[f])})

\* ground-truth labels a label file may carry (non-empty after strip)
DriverLabels == {<<"a">>, UNKNOWN}

\* what load_answers_from_csv gives main(): an exception or a non-empty dict
AnswerOutcomes ==
    {[kind |-> "FileNotFoundError", dict |-> <<>>],
     [kind |-> "ValueError", dict |-> <<>>]}
    \cup {[kind |-> "ok", dict |-> d] :
            d \in UNION {[D -> DriverLabels] : D \in (SUBSET Filenames) \ {{}}}}

\* what load_image_as_base64 + call_vision_api do for one image:
\*   load_raises : load_image_as_base64 raised
\*   none        : call_vision_api returned None
\*   non_object  : json.loads gave a list, a number or a string
\*   object      : json.loads gave a dict; crop/confidence present or Missing
ClassifierOutcomes ==
    {[kind |-> k, crop |-> Missing, confidence |-> Missing] :
        k \in {"load_raises", "none", "non_object"}}
    \cup [kind : {"object"},
          crop : {Missing, PyNone, Num(7), Str(<<"a">>), Str(ERROR)},
          confidence : {Missing, PyNone, Str(<<"a">>), Num(90)}]

ErrorRecord(filename, true_label) ==
    [filename |-> filename, true_label |-> true_label,
     pred_label |-> Str(ERROR), pred_confidence |-> Num(0)]

classify_single_image(filename, true_label, outcome) ==
    CASE outcome.kind = "load_raises" -> ErrorRecord(filename, true_label)
      [] outcome.kind = "none" -> ErrorRecord(filename, true_label)
      \* .get on a list/number/string: AttributeError, caught at line 99
      [] outcome.kind = "non_object" -> ErrorRecord(filename, true_label)
      [] outcome.kind = "object" ->
            [filename |-> filename, true_label |-> true_label,
             pred_label |-> IF outcome.crop = Missing THEN Str(UNKNOWN)
                            ELSE outcome.crop,
             pred_confidence |-> IF outcome.confidence = Missing THEN Num(0)
                                 ELSE outcome.confidence]

\* display_progress raises (AttributeError on .lower(), TypeError on * 100,
\* ValueError/TypeError on the :.1f format) unless the label is a str and the
\* confidence a number
display_progress_raises(predicted_label, confidence) ==
    predicted_label.t # "str" \/ confidence.t # "num"

\* csv.DictWriter writes str(value); None is written as the empty string
CsvCell(v) == IF v.t = "none" THEN Str(<<>>) ELSE v

save_predictions_to_csv(preds) ==
    [exists |-> TRUE,
     rows |-> [i \in 1..Len(preds) |->
                 [filename |-> preds[i].filename,
                  true_label |-> preds[i].true_label,
                  pred_label |-> CsvCell(preds[i].pred_label),
                  pred_confidence |-> CsvCell(preds[i].pred_confidence)]]]

NoFile == [exists |-> FALSE, rows |-> <<>>]

\* a predictions.csv left by an earlier run
OldFile ==
    [exists |-> TRUE,
     rows |-> <<[filename |-> 1, true_label |-> <<"a">>,
                 pred_label |-> Str(<<"a">>), pred_confidence |-> Num(50)]>>]

DriverInit ==
    /\ driver_pc = "start"
    /\ answers_dict = <<>>
    /\ image_files = <<>>
    /\ index = 1
    /\ all_predictions = <<>>
    /\ skipped = <<>>
    /\ api_calls = <<>>
    /\ predictions_file \in {NoFile, OldFile}
    /\ writes = 0

\* main(), lines 176-223: API key, label file, image list
DriverStart ==
    /\ driver_pc = "start"
    /\ \E api_key \in BOOLEAN, ans \in AnswerOutcomes, dir \in Dirs :
          IF ~api_key
          THEN /\ driver_pc' = "no_api_key"
               /\ UNCHANGED <<answers_dict, image_files>>
          ELSE IF ans.kind = "FileNotFoundError"
          THEN /\ driver_pc' = "no_answer_file"
               /\ UNCHANGED <<answers_dict, image_files>>
          ELSE IF ans.kind = "ValueError"
          THEN /\ driver_pc' = "answers_unreadable"
               /\ UNCHANGED <<answers_dict, image_files>>
          ELSE IF DOMAIN ans.dict = {}
          THEN /\ driver_pc' = "no_valid_labels"
               /\ answers_dict' = ans.dict
               /\ UNCHANGED image_files
          ELSE /\ answers_dict' = ans.dict
               /\ image_files' = get_image_files(dir)
               /\ driver_pc' = IF get_image_files(dir) = <<>>
                               THEN "no_images" ELSE "loop"
    /\ UNCHANGED <<index, all_predictions, skipped, api_calls,
                   predictions_file, writes>>

\* one iteration of the for loop, lines 225-248
LoopBody ==
    /\ driver_pc = "loop"
    /\ index <= Len(image_files)
    /\ LET filename == image_files[index]
           true_label == IF filename \in DOMAIN answers_dict
                         THEN answers_dict[filename] ELSE UNKNOWN
       IN IF true_label = UNKNOWN
          THEN /\ skipped' = Append(skipped, filename)
               /\ index' = index + 1
               /\ UNCHANGED <<driver_pc, all_predictions, api_calls>>
          ELSE \E outcome \in ClassifierOutcomes :
                 LET prediction ==
                         classify_single_image(filename, true_label, outcome)
                 IN /\ api_calls' = Append(api_calls, filename)
                    /\ all_predictions' = Append(all_predictions, prediction)
                    /\ IF display_progress_raises(prediction.pred_label,
                                                  prediction.pred_confidence)
                       THEN /\ driver_pc' = "crashed"
                            /\ UNCHANGED index
                       ELSE /\ index' = index + 1
                            /\ UNCHANGED driver_pc
                    /\ UNCHANGED skipped
    /\ UNCHANGED <<answers_dict, image_files, predictions_file, writes>>

\* a mutant of SaveResults: the table is written for an empty list too
SaveResultsAlsoWhenEmpty ==
    /\ driver_pc = "loop"
    /\ index > Len(image_files)
    /\ predictions_file' = save_predictions_to_csv(all_predictions)
    /\ writes' = writes + 1
    /\ driver_pc' = IF all_predictions # <<>> THEN "saved"
                    ELSE "nothing_processed"
    /\ UNCHANGED <<answers_dict, image_files, index, all_predictions,
                   skipped, api_calls>>

\* after the loop, lines 250-262
SaveResults ==
    /\ driver_pc = "loop"
    /\ index > Len(image_files)
    /\ IF all_predictions # <<>>
       THEN /\ predictions_file' = save_predictions_to_csv(all_predictions)
            /\ writes' = writes + 1
            /\ driver_pc' = "saved"
       ELSE /\ driver_pc' = "nothing_processed"
            /\ UNCHANGED <<predictions_file, writes>>
    /\ UNCHANGED <<answers_dict, image_files, index, all_predictions,
                   skipped, api_calls>>

DriverNext ==
    \/ DriverStart /\ UNCHANGED outsideDriver
    \/ LoopBody /\ UNCHANGED outsideDriver
    \/ SaveResults /\ UNCHANGED outsideDriver

----------------------------------------------------------------------------
(* evaluate_accuracy.py: the statistics *)

RECURSIVE GCD(_, _)
GCD(a, b) == IF b = 0 THEN a ELSE GCD(b, a % b)

\* the quotient n / d (d > 0), exactly, in lowest terms
Frac(n, d) == LET g == GCD(n, d) IN <<n \div g, d \div g>>
FracTimes(f, k) == Frac(f[1] * k, f[2])

\* prediction['true_label'].lower() == prediction['pred_label'].lower()
IsCorrect(prediction) ==
    Lower(prediction.true_label) = Lower(prediction.pred_label)

\* the for loop of calculate_overall_accuracy, over the first i records
RECURSIVE CountCorrect(_, _)
CountCorrect(preds, i) ==
    IF i = 0 THEN 0
    ELSE CountCorrect(preds, i - 1) + (IF IsCorrect(preds[i]) THEN 1 ELSE 0)

\* a mutant of calculate_overall_accuracy: the fraction is not turned into
\* a percentage
calculate_overall_accuracy_no_percent(preds) ==
    IF preds = <<>>
    THEN [total |-> 0, correct |-> 0, accuracy |-> <<0, 1>>]
    ELSE [total |-> Len(preds),
          correct |-> CountCorrect(preds, Len(preds)),
          accuracy |-> Frac(CountCorrect(preds, Len(preds)), Len(preds))]

calculate_overall_accuracy(preds) ==
    IF preds = <<>>
    THEN [total |-> 0, correct |-> 0, accuracy |-> <<0, 1>>]
    ELSE LET total_count == Len(preds)
             correct_count == CountCorrect(preds, Len(preds))
         IN [total |-> total_count,
             correct |-> correct_count,
             accuracy |-> FracTimes(Frac(correct_count, total_count), 100)]

\* the defaultdict's factory
NewCropData == [total |-> 0, correct |-> 0, confidence_sum |-> 0]

\* a mutant of CropDataStep: a category's correct count compares the case
CropDataStepCaseSensitive(crop_data, prediction) ==
    LET true_crop == prediction.true_label
        old == IF true_crop \in DOMAIN crop_data
               THEN crop_data[true_crop] ELSE NewCropData
        new == [total |-> old.total + 1,
                confidence_sum |->
                    old.confidence_sum + prediction.pred_confidence,
                correct |-> old.correct +
                    (IF true_crop = prediction.pred_label THEN 1 ELSE 0)]
    IN [k \in DOMAIN crop_data \cup {true_crop} |->
           IF k = true_crop THEN new ELSE crop_data[k]]

\* one iteration of the grouping loop, lines 122-132
CropDataStep(crop_data, prediction) ==
    LET true_crop == prediction.true_label
        old == IF true_crop \in DOMAIN crop_data
               THEN crop_data[true_crop] ELSE NewCropData
        new == [total |-> old.total + 1,
                confidence_sum |->
                    old.confidence_sum + prediction.pred_confidence,
                correct |-> old.correct +
                    (IF IsCorrect(prediction) THEN 1 ELSE 0)]
    IN [k \in DOMAIN crop_data \cup {true_crop} |->
           IF k = true_crop THEN new ELSE crop_data[k]]

RECURSIVE CropData(_, _)
CropData(preds, i) ==
    IF i = 0 THEN <<>>
    ELSE CropDataStep(CropData(preds, i - 1), preds[i])

calculate_per_crop_statistics(preds) ==
    LET crop_data == CropData(preds, Len(preds))
    IN [crop_name \in DOMAIN crop_data |->
           LET data == crop_data[crop_name]
           IN [total |-> data.total,
               correct |-> data.correct,
               accuracy |-> FracTimes(Frac(data.correct, data.total), 100),
               avg_confidence |-> Frac(data.confidence_sum, data.total)]]

\* the keys of the dict in insertion order: each true_label at its first
\* occurrence in the list
RECURSIVE InsertionOrder(_)
InsertionOrder(preds) ==
    IF preds = <<>> THEN <<>>
    ELSE LET n == Len(preds)
             before == InsertionOrder(SubSeq(preds, 1, n - 1))
         IN IF \E j \in 1..(n - 1) : preds[j].true_label = preds[n].true_label
            THEN before ELSE Append(before, preds[n].true_label)

\* f"{x:.1f}": the number x = f[1] / f[2] >= 0 in tenths, rounded to nearest
FormatOneDecimal(f) == (20 * f[1] + f[2]) \div (2 * f[2])

\* sorted(..., key=accuracy, reverse=True) is stable: among the keys not
\* yet placed, the first in `order` with the highest accuracy comes next
RECURSIVE SortedByAccuracy(_, _)
SortedByAccuracy(stats, order) ==
    IF order = <<>> THEN <<>>
    ELSE LET Higher(i, j) ==
                 stats[order[i]].accuracy[1] * stats[order[j]].accuracy[2]
                   > stats[order[j]].accuracy[1] * stats[order[i]].accuracy[2]
             best == CHOOSE i \in 1..Len(order) :
                        /\ \A j \in 1..Len(order) : ~Higher(j, i)
                        /\ \A j \in 1..(i - 1) : Higher(i, j)
             rest == [j \in 1..(Len(order) - 1) |->
                         IF j < best THEN order[j] ELSE order[j + 1]]
         IN <<order[best]>> \o SortedByAccuracy(stats, rest)

\* display_per_crop_statistics, lines 201-214: one printed block per crop.
\* accuracy and avg_confidence are the figures printed before the "%"
\* sign, in tenths; avg_confidence is a confidence in hundredths, so the
\* number formatted at line 213 is avg_confidence / 100.
display_per_crop_statistics(stats, order) ==
    LET sorted_crops == SortedByAccuracy(stats, order)
    IN [i \in 1..Len(sorted_crops) |->
           LET st == stats[sorted_crops[i]]
           IN [crop_name |-> sorted_crops[i],
               total |-> st.total,
               correct |-> st.correct,
               accuracy |-> FormatOneDecimal(st.accuracy),
               avg_confidence |->
                   FormatOneDecimal(<<st.avg_confidence[1],
                                      st.avg_confidence[2] * 100>>)]]

\* a mutant of find_misclassified_images: the labels are compared as written
RECURSIVE FindMisclassifiedCaseSensitive(_, _)
FindMisclassifiedCaseSensitive(preds, i) ==
    IF i = 0 THEN <<>>
    ELSE LET before == FindMisclassifiedCaseSensitive(preds, i - 1)
         IN IF preds[i].true_label # preds[i].pred_label
            THEN Append(before, preds[i]) ELSE before

find_misclassified_images_case_sensitive(preds) ==
    FindMisclassifiedCaseSensitive(preds, Len(preds))

\* the for loop of find_misclassified_images, over the first i records
RECURSIVE FindMisclassified(_, _)
FindMisclassified(preds, i) ==
    IF i = 0 THEN <<>>
    ELSE LET before == FindMisclassified(preds, i - 1)
         IN IF ~IsCorrect(preds[i]) THEN Append(before, preds[i]) ELSE before

find_misclassified_images(preds) == FindMisclassified(preds, Len(preds))

----------------------------------------------------------------------------
(* evaluate_accuracy.py: load_predictions_from_csv and main *)

encodings_to_try == <<"utf-8-sig", "utf-8", "cp949", "euc-kr">>

\* A predictions table on disk.  rows are its data rows as csv.DictReader
\* yields them once the text decodes.  first_ok is the position in
\* encodings_to_try of the first encoding under which the whole file reads
\* (Len(encodings_to_try) + 1: none does); an attempt before first_ok raises
\* UnicodeDecodeError or KeyError after fail_rows rows went through the loop
\* body (a missing column is fail_rows = 0 under every encoding).
\* A pred_confidence cell is Num(n) when its text is a number and another
\* value when float() rejects it.
NoTable == [exists |-> FALSE, rows |-> <<>>, first_ok |-> 1, fail_rows |-> 0]

\* a mutant of ReadRow: rows labelled ERROR are kept
ReadRowKeepsError(acc, row) ==
    IF acc.float_error THEN acc
    ELSE IF row.pred_confidence.t # "num"
    THEN [acc EXCEPT !.float_error = TRUE]
    ELSE [acc EXCEPT !.preds = Append(acc.preds,
              [filename |-> row.filename,
               true_label |-> row.true_label,
               pred_label |-> row.pred_label.s,
               pred_confidence |-> row.pred_confidence.n])]

\* the body of `for row in csv_reader`, lines 47-57; float_error records the
\* ValueError of float(), which the except clause of line 62 does not catch
ReadRow(acc, row) ==
    IF acc.float_error THEN acc
    ELSE IF row.pred_label = Str(ERROR) THEN acc
    ELSE IF row.pred_confidence.t # "num"
    THEN [acc EXCEPT !.float_error = TRUE]
    ELSE [acc EXCEPT !.preds = Append(acc.preds,
              [filename |-> row.filename,
               true_label |-> row.true_label,
               pred_label |-> row.pred_label.s,
               pred_confidence |-> row.pred_confidence.n])]

\* the loop over the first n rows, appending to the list preds
RECURSIVE ReadRows(_, _, _)
ReadRows(preds, rows, n) ==
    IF n = 0 THEN [preds |-> preds, float_error |-> FALSE]
    ELSE ReadRow(ReadRows(preds, rows, n - 1), rows[n])

NotComputed == [total |-> -1, correct |-> -1, accuracy |-> <<0, 1>>]

\* main() line 254 calling load_predictions_from_csv, lines 34-40
EvalStart ==
    /\ eval_pc = "start"
    /\ IF ~csv_file.exists
       THEN eval_pc' = "file_not_found"
       ELSE eval_pc' = "try"
    /\ predictions' = <<>>
    /\ enc_index' = 1
    /\ enc_tried' = <<>>
    /\ UNCHANGED <<csv_file, accuracy_info, crop_statistics, crop_report,
                   misclassified_images>>

\* one pass of `for encoding in encodings_to_try`, lines 42-60
ReadAttempt ==
    /\ eval_pc = "try"
    /\ enc_index <= Len(encodings_to_try)
    /\ LET fails == enc_index < csv_file.first_ok
           n == IF fails THEN csv_file.fail_rows ELSE Len(csv_file.rows)
           got == ReadRows(predictions, csv_file.rows, n)
       IN /\ predictions' = got.preds
          /\ eval_pc' = IF got.float_error THEN "raised_float_ValueError"
                        ELSE IF fails THEN "except"
                        ELSE "after_loop"
    /\ enc_tried' = Append(enc_tried, encodings_to_try[enc_index])
    /\ UNCHANGED <<csv_file, enc_index, accuracy_info, crop_statistics,
                   crop_report, misclassified_images>>

\* except (UnicodeDecodeError, UnicodeError, KeyError), lines 62-65
HandleDecodeError ==
    /\ eval_pc = "except"
    /\ predictions' = <<>>
    /\ enc_index' = enc_index + 1
    /\ eval_pc' = IF enc_index = Len(encodings_to_try)
                  THEN "after_loop" ELSE "try"
    /\ UNCHANGED <<csv_file, enc_tried, accuracy_info, crop_statistics,
                   crop_report, misclassified_images>>

\* lines 67-72, then main() lines 255-264
LoadFinish ==
    /\ eval_pc = "after_loop"
    /\ IF predictions = <<>>
       THEN eval_pc' = "raised_ValueError"
       \* main() catches FileNotFoundError only; its own emptiness test
       \* at line 262 sees a list that line 67 already found non-empty
       ELSE IF predictions = <<>>
       THEN eval_pc' = "nothing_to_evaluate"
       ELSE eval_pc' = "overall"
    /\ UNCHANGED <<csv_file, enc_tried, enc_index, predictions, accuracy_info,
                   crop_statistics, crop_report, misclassified_images>>

\* main() lines 267-268
CalcOverall ==
    /\ eval_pc = "overall"
    /\ accuracy_info' = calculate_overall_accuracy(predictions)
    /\ eval_pc' = "per_crop"
    /\ UNCHANGED <<csv_file, enc_tried, enc_index, predictions, crop_statistics,
                   crop_report, misclassified_images>>

\* main() lines 271-272
CalcPerCrop ==
    /\ eval_pc = "per_crop"
    /\ crop_statistics' = calculate_per_crop_statistics(predictions)
    /\ crop_report' = display_per_crop_statistics(
                          calculate_per_crop_statistics(predictions),
                          InsertionOrder(predictions))
    /\ eval_pc' = "misclassified"
    /\ UNCHANGED <<csv_file, enc_tried, enc_index, predictions, accuracy_info,
                   misclassified_images>>

\* main() lines 275-281
AnalyseMisclassified ==
    /\ eval_pc = "misclassified"
    /\ misclassified_images' = find_misclassified_images(predictions)
    /\ eval_pc' = "done"
    /\ UNCHANGED <<csv_file, enc_tried, enc_index, predictions, accuracy_info,
                   crop_statistics, crop_report>>

----------------------------------------------------------------------------
(* utils.py: load_answers_from_csv *)

Whitespace == {" ", "\n"}

RECURSIVE LStrip(_)
LStrip(s) ==
    IF s # <<>> /\ Head(s) \in Whitespace THEN LStrip(Tail(s)) ELSE s

RECURSIVE RStrip(_)
RStrip(s) ==
    IF s # <<>> /\ s[Len(s)] \in Whitespace
    THEN RStrip(SubSeq(s, 1, Len(s) - 1)) ELSE s

\* str.strip()
Strip(s) == RStrip(LStrip(s))

\* d[k] = v on a dictionary
DictSet(d, k, v) == [x \in DOMAIN d \cup {k} |-> IF x = k THEN v ELSE d[x]]

\* the label table: missing, or the rows csv.DictReader yields.  Attempts
\* before first_ok end in a decoding error or a KeyError after yielding the
\* rows of partial; a row shorter than the header has None in its label cell
NoAnswerCsv == [exists |-> FALSE, rows |-> <<>>, first_ok |-> 1, partial |-> <<>>]

\* the body of `for row in csv_reader`, lines 164-172; attribute_error
\* records None.strip(), which the except clause of line 177 does not catch
ReadLabelRow(acc, row) ==
    IF acc.attribute_error THEN acc
    ELSE IF row.label = PyNone THEN [acc EXCEPT !.attribute_error = TRUE]
    ELSE LET filename == Strip(row.filename)
             label == Strip(row.label.s)
         IN IF label = <<>>
            THEN [acc EXCEPT !.warned = Append(@, filename)]
            ELSE [acc EXCEPT !.dict = DictSet(@, filename, label)]

\* the loop over the first n rows
RECURSIVE ReadLabelRows(_, _, _)
ReadLabelRows(acc, rows, n) ==
    IF n = 0 THEN acc
    ELSE ReadLabelRow(ReadLabelRows(acc, rows, n - 1), rows[n])

\* lines 146-155
ReaderStart ==
    /\ reader_pc = "start"
    /\ IF ~answer_csv.exists
       THEN reader_pc' = "raised_FileNotFoundError"
       ELSE reader_pc' = "try"
    /\ labels_dict' = <<>>
    /\ successful_encoding' = "None"
    /\ reader_enc' = 1
    /\ reader_tried' = <<>>
    /\ UNCHANGED <<answer_csv, warnings>>

\* one pass of `for encoding in encodings_to_try`, lines 157-175
LabelAttempt ==
    /\ reader_pc = "try"
    /\ reader_enc <= Len(encodings_to_try)
    /\ LET fails == reader_enc < answer_csv.first_ok
           rows == IF fails THEN answer_csv.partial ELSE answer_csv.rows
           got == ReadLabelRows([dict |-> labels_dict, warned |-> warnings,
                                 attribute_error |-> FALSE], rows, Len(rows))
       IN /\ labels_dict' = got.dict
          /\ warnings' = got.warned
          /\ reader_pc' = IF got.attribute_error THEN "raised_AttributeError"
                          ELSE IF fails THEN "except"
                          ELSE "after_loop"
          /\ successful_encoding' =
                 IF got.attribute_error \/ fails THEN successful_encoding
                 ELSE encodings_to_try[reader_enc]
    /\ reader_tried' = Append(reader_tried, encodings_to_try[reader_enc])
    /\ UNCHANGED <<answer_csv, reader_enc>>

\* a mutant of LabelHandleError: the rows of the failed attempt are kept
LabelHandleErrorKeepsRows ==
    /\ reader_pc = "except"
    /\ reader_enc' = reader_enc + 1
    /\ reader_pc' = IF reader_enc = Len(encodings_to_try)
                    THEN "after_loop" ELSE "try"
    /\ UNCHANGED <<answer_csv, reader_tried, labels_dict, successful_encoding,
                   warnings>>

\* except (UnicodeDecodeError, UnicodeError, KeyError), lines 177-180
LabelHandleError ==
    /\ reader_pc = "except"
    /\ labels_dict' = <<>>
    /\ reader_enc' = reader_enc + 1
    /\ reader_pc' = IF reader_enc = Len(encodings_to_try)
                    THEN "after_loop" ELSE "try"
    /\ UNCHANGED <<answer_csv, reader_tried, successful_encoding, warnings>>

\* lines 182-191
ReaderFinish ==
    /\ reader_pc = "after_loop"
    /\ IF labels_dict = <<>>
       THEN reader_pc' = "raised_ValueError"
       ELSE reader_pc' = "returned"
    /\ UNCHANGED <<answer_csv, reader_enc, reader_tried, labels_dict,
                   successful_encoding, warnings>>

----------------------------------------------------------------------------
(* utils.py: call_vision_api *)

\* The message content is a sequence of lexemes: JSON tokens, whitespace,
\* and words or fences that are no JSON.  The contents of the model hold no
\* nested containers.
JsonStrings ==
    [t \in {"\"a\"", "\"crop\"", "\"confidence\""} |->
        CASE t = "\"a\"" -> <<"a">>
          [] t = "\"crop\"" -> <<"c", "r", "o", "p">>
          [] t = "\"confidence\"" ->
                 <<"c", "o", "n", "f", "i", "d", "e", "n", "c", "e">>]

\* number tokens, in hundredths
JsonNumbers == [t \in {"0.9", "7"} |-> IF t = "0.9" THEN 90 ELSE 700]

IsScalar(t) ==
    t \in DOMAIN JsonStrings \cup DOMAIN JsonNumbers \cup {"null"}

ScalarValue(t) ==
    IF t \in DOMAIN JsonStrings THEN Str(JsonStrings[t])
    ELSE IF t \in DOMAIN JsonNumbers THEN Num(JsonNumbers[t])
    ELSE PyNone

\* scalar (, scalar)*  or nothing
IsElements(toks) ==
    \/ toks = <<>>
    \/ /\ Len(toks) % 2 = 1
       /\ \A i \in 1..Len(toks) :
              IF i % 2 = 1 THEN IsScalar(toks[i]) ELSE toks[i] = ","

\* string : scalar (, string : scalar)*  or nothing
IsMembers(toks) ==
    \/ toks = <<>>
    \/ /\ Len(toks) % 4 = 3
       /\ \A i \in 1..Len(toks) :
              CASE i % 4 = 1 -> toks[i] \in DOMAIN JsonStrings
                [] i % 4 = 2 -> toks[i] = ":"
                [] i % 4 = 3 -> IsScalar(toks[i])
                [] OTHER -> toks[i] = ","

\* dict.get(key, Missing) on the members of an object; the last of
\* several equal keys wins
RECURSIVE MemberValue(_, _)
MemberValue(toks, key) ==
    IF toks = <<>> THEN Missing
    ELSE LET n == Len(toks)
         IN IF JsonStrings[toks[n - 2]] = key THEN ScalarValue(toks[n])
            ELSE MemberValue(SubSeq(toks, 1, n - 4), key)

DecodeError == [kind |-> "decode_error", crop |-> Missing, confidence |-> Missing]
NonObject == [kind |-> "non_object", crop |-> Missing, confidence |-> Missing]
ReturnedNone == [kind |-> "none", crop |-> Missing, confidence |-> Missing]

\* json.loads: whitespace between tokens is skipped, the tokens must make
\* exactly one value; null gives None
json_loads(text) ==
    LET toks == SelectSeq(text, LAMBDA t : t \notin Whitespace)
        n == Len(toks)
        inner == SubSeq(toks, 2, n - 1)
    IN IF n = 1 /\ toks[1] = "null" THEN ReturnedNone
       ELSE IF n = 1 /\ IsScalar(toks[1]) THEN NonObject
       ELSE IF n >= 2 /\ toks[1] = "[" /\ toks[n] = "]" /\ IsElements(inner)
       THEN NonObject
       ELSE IF n >= 2 /\ toks[1] = "{" /\ toks[n] = "}" /\ IsMembers(inner)
       THEN [kind |-> "object",
             crop |-> MemberValue(inner, JsonStrings["\"crop\""]),
             confidence |-> MemberValue(inner, JsonStrings["\"confidence\""])]
       ELSE DecodeError

\* lines 87-112: client.chat.completions.create returns or raises
ApiCall ==
    /\ api_pc = "start"
    /\ api_pc' = IF api_response.kind = "raises" THEN "except" ELSE "extract"
    /\ UNCHANGED <<api_response, response_text, api_result>>

\* line 115: response.choices[0].message.content.strip(); an empty choices
\* list raises IndexError and a content of None raises AttributeError
ExtractText ==
    /\ api_pc = "extract"
    /\ IF api_response.kind \in {"no_choices", "content_none"}
       THEN /\ api_pc' = "except"
            /\ UNCHANGED response_text
       ELSE /\ api_pc' = "parse"
            /\ response_text' = Strip(api_response.content)
    /\ UNCHANGED <<api_response, api_result>>

\* lines 118-123
ParseJson ==
    /\ api_pc = "parse"
    /\ LET result == json_loads(response_text)
       IN api_result' = IF result.kind = "decode_error" THEN ReturnedNone
                        ELSE result
    /\ api_pc' = "returned"
    /\ UNCHANGED <<api_response, response_text>>

\* except Exception, lines 125-127
HandleApiError ==
    /\ api_pc = "except"
    /\ api_result' = ReturnedNone
    /\ api_pc' = "returned"
    /\ UNCHANGED <<api_response, response_text>>

----------------------------------------------------------------------------
(* create_answer_template.py *)

\* SUPPORTED_IMAGE_EXTENSIONS of create_answer_template.py, line 18
TEMPLATE_IMAGE_EXTENSIONS ==
    SUPPORTED_IMAGE_EXTENSIONS
        \cup {<<".", "b", "m", "p">>, <<".", "g", "i", "f">>}

\* a mutant of get_all_image_files: the suffix is compared as it is
get_all_image_files_case_sensitive(dir) ==
    IF ~dir.exists THEN <<>>
    ELSE SortedByName({f \in Filenames :
                          /\ dir.entries[f].present
                          /\ dir.entries[f].is_file
                          /\ dir.entries[f].suffix
                                 \in TEMPLATE_IMAGE_EXTENSIONS})

\* lines 21-41
get_all_image_files(dir) ==
    IF ~dir.exists THEN <<>>
    ELSE SortedByName({f \in Filenames :
                          /\ dir.entries[f].present
                          /\ dir.entries[f].is_file
                          /\ Lower(dir.entries[f].suffix)
                                 \in TEMPLATE_IMAGE_EXTENSIONS})

\* lines 44-68: header, then one row per file with an empty label
create_answer_template(files) ==
    [exists |-> TRUE,
     rows |-> [i \in 1..Len(files) |->
                 [filename |-> files[i], label |-> Str(<<>>)]]]

\* what the folder scanned by the generator may hold under one name
TemplateEntryKinds ==
    EntryKinds
        \cup {[present |-> TRUE, is_file |-> TRUE, suffix |-> <<".", "t", "x", "t">>]}

TemplateDirs ==
    [exists : BOOLEAN, entries : [Filenames -> TemplateEntryKinds \cup {NoEntry}]]

\* main() lines 120-127
TemplateScan ==
    /\ template_pc = "start"
    /\ template_files' = get_all_image_files(template_dir)
    /\ template_pc' = IF get_all_image_files(template_dir) = <<>>
                      THEN "no_images" ELSE "create"
    /\ UNCHANGED <<template_dir, answer_file>>

\* main() lines 135-150: an existing answer.csv is overwritten
TemplateWrite ==
    /\ template_pc = "create"
    /\ answer_file' = create_answer_template(template_files)
    /\ template_pc' = "done"
    /\ UNCHANGED <<template_dir, template_files>>

----------------------------------------------------------------------------
(* run_all.py *)

\* lines 50-76, on the rows after the header: a row without a second cell
\* has len(parts) < 2; line.strip() takes the trailing blanks of the last
\* cell away before the split
check_answer_file_filled(file) ==
    IF ~file.exists THEN FALSE
    ELSE IF Len(file.rows) < 1 THEN FALSE
    ELSE \A i \in 1..Len(file.rows) :
             /\ file.rows[i].label.t = "str"
             /\ RStrip(file.rows[i].label.s) # <<>>

\* the text csv.DictWriter wrote for a pred_label, read back: a number
\* comes back as its digits
LabelReadBack(cell) == IF cell.t = "num" THEN Str(<<"7">>) ELSE cell

\* data/predictions.csv as evaluate_accuracy.py finds it, decoding as b
\* says (<<first_ok, fail_rows>>)
PredictionsTable(file, b) ==
    IF ~file.exists THEN NoTable
    ELSE [exists |-> TRUE,
          rows |-> [i \in 1..Len(file.rows) |->
                      [filename |-> file.rows[i].filename,
                       true_label |-> file.rows[i].true_label,
                       pred_label |-> LabelReadBack(file.rows[i].pred_label),
                       pred_confidence |-> file.rows[i].pred_confidence]],
          first_ok |-> b[1], fail_rows |-> b[2]]

\* how data/predictions.csv decodes: the driver writes utf-8-sig, which the
\* first encoding of the reader decodes; a table left by an earlier run may
\* have been saved again in another encoding since
DecodingsOf(file, written) ==
    IF written \/ ~file.exists THEN {<<1, 0>>}
    ELSE {<<1, 0>>, <<3, 0>>, <<3, 1>>}

\* main() lines 88-122: which script is started first.  The script runs as
\* a process of its own on the folder and files it finds.
RunAllStart ==
    /\ run_pc = "start"
    /\ IF ~answer_file.exists
       THEN /\ stages' = Append(stages, "create_answer_template")
            /\ template_pc' = "start"
            /\ template_dir' \in TemplateDirs
            /\ run_pc' = "template"
            /\ UNCHANGED driver_pc
       ELSE IF ~check_answer_file_filled(answer_file)
       THEN /\ run_pc' = "answers_not_filled"
            /\ UNCHANGED <<stages, template_pc, template_dir, driver_pc>>
       ELSE /\ stages' = Append(stages, "classify_images")
            /\ driver_pc' = "start"
            /\ run_pc' = "classify"
            /\ UNCHANGED <<template_pc, template_dir>>
    /\ UNCHANGED <<answers_dict, image_files, index, all_predictions, skipped,
                   api_calls, predictions_file, writes, template_files,
                   answer_file, evalVars, readerVars, adapterVars>>

\* main() lines 92-104: the generator has ended; its main() returns on every
\* path, so run_script gives True and the user is asked to fill the labels
RunAfterTemplate ==
    /\ run_pc = "template"
    /\ template_pc \in {"no_images", "done"}
    /\ run_pc' = "waiting_for_labels"
    /\ UNCHANGED <<stages, driverVars, evalVars, readerVars, adapterVars,
                   templateVars>>

\* main() lines 122-129: the driver has ended.  run_script gives False only
\* for a non-zero exit status, that is for an uncaught exception; every
\* `return` of classify_images.main() gives status 0
RunAfterClassify ==
    /\ run_pc = "classify"
    /\ driver_pc \in {"no_api_key", "no_answer_file", "answers_unreadable",
                      "no_valid_labels", "no_images", "saved",
                      "nothing_processed", "crashed"}
    /\ IF driver_pc = "crashed"
       THEN /\ run_pc' = "classify_failed"
            /\ UNCHANGED <<stages, evalVars>>
       ELSE /\ stages' = Append(stages, "evaluate_accuracy")
            /\ run_pc' = "evaluate"
            /\ eval_pc' = "start"
            /\ \E b \in DecodingsOf(predictions_file, writes > 0) :
                   csv_file' = PredictionsTable(predictions_file, b)
            /\ UNCHANGED <<enc_index, enc_tried, predictions, accuracy_info,
                           crop_statistics, crop_report,
                           misclassified_images>>
    /\ UNCHANGED <<driverVars, readerVars, adapterVars, templateVars>>

\* main() lines 128-145: the evaluation has ended
RunAfterEvaluate ==
    /\ run_pc = "evaluate"
    /\ eval_pc \in {"file_not_found", "raised_ValueError",
                    "raised_float_ValueError", "nothing_to_evaluate", "done"}
    /\ run_pc' = IF eval_pc \in {"raised_ValueError", "raised_float_ValueError"}
                 THEN "evaluate_failed" ELSE "all_done"
    /\ UNCHANGED <<stages, driverVars, evalVars, readerVars, adapterVars,
                   templateVars>>

----------------------------------------------------------------------------
(* Specifications *)

DriverIdle ==
    /\ driver_pc = "idle"
    /\ answers_dict = <<>>
    /\ image_files = <<>>
    /\ index = 1
    /\ all_predictions = <<>>
    /\ skipped = <<>>
    /\ api_calls = <<>>
    /\ predictions_file = NoFile
    /\ writes = 0

EvalIdle ==
    /\ eval_pc = "idle"
    /\ csv_file = NoTable
    /\ enc_index = 1
    /\ enc_tried = <<>>
    /\ predictions = <<>>
    /\ accuracy_info = NotComputed
    /\ crop_statistics = <<>>
    /\ crop_report = <<>>
    /\ misclassified_images = <<>>

ReaderIdle ==
    /\ reader_pc = "idle"
    /\ answer_csv = NoAnswerCsv
    /\ reader_enc = 1
    /\ reader_tried = <<>>
    /\ labels_dict = <<>>
    /\ successful_encoding = "None"
    /\ warnings = <<>>

NoResponse == [kind |-> "none", content |-> <<>>]

AdapterIdle ==
    /\ api_pc = "idle"
    /\ api_response = NoResponse
    /\ response_text = <<>>
    /\ api_result = ReturnedNone

NoAnswerFile == [exists |-> FALSE, rows |-> <<>>]
NoDir == [exists |-> FALSE, entries |-> [f \in Filenames |-> NoEntry]]

TemplateIdle ==
    /\ template_pc = "idle"
    /\ template_dir = NoDir
    /\ template_files = <<>>
    /\ answer_file = NoAnswerFile

RunIdle ==
    /\ run_pc = "idle"
    /\ stages = <<>>

InitDriver == DriverInit /\ EvalIdle /\ ReaderIdle /\ AdapterIdle
        /\ TemplateIdle /\ RunIdle

SpecDriver == InitDriver /\ [][DriverNext]_vars

\* the cells of a table row read by the evaluation
EvalCells ==
    [true_label : {<<"a">>, <<"b">>},
     pred_label : {Str(<<"a">>), Str(ERROR)},
     pred_confidence : {Num(50), Num(90)}]
    \cup [true_label : {<<"a">>},
          pred_label : {Str(<<"a">>), Str(ERROR)},
          pred_confidence : {Str(<<>>)}]

TableRows(cells) ==
    [i \in 1..Len(cells) |->
        [filename |-> i, true_label |-> cells[i].true_label,
         pred_label |-> cells[i].pred_label,
         pred_confidence |-> cells[i].pred_confidence]]

\* how the file decodes: <<first_ok, fail_rows>>
ReadBehaviours == {<<1, 0>>, <<3, 0>>, <<3, 1>>, <<5, 0>>, <<5, 1>>}

EvalTables ==
    {NoTable} \cup
    {[exists |-> TRUE, rows |-> TableRows(cells),
      first_ok |-> b[1], fail_rows |-> b[2]] :
        cells \in UNION {[1..n -> EvalCells] : n \in 0..MaxRows},
        b \in ReadBehaviours}

EvalInit ==
    /\ eval_pc = "start"
    /\ csv_file \in {t \in EvalTables : t.fail_rows <= Len(t.rows)}
    /\ enc_index = 1
    /\ enc_tried = <<>>
    /\ predictions = <<>>
    /\ accuracy_info = NotComputed
    /\ crop_statistics = <<>>
    /\ crop_report = <<>>
    /\ misclassified_images = <<>>

EvalNext ==
    \/ EvalStart /\ UNCHANGED outsideEval
    \/ ReadAttempt /\ UNCHANGED outsideEval
    \/ HandleDecodeError /\ UNCHANGED outsideEval
    \/ LoadFinish /\ UNCHANGED outsideEval
    \/ CalcOverall /\ UNCHANGED outsideEval
    \/ CalcPerCrop /\ UNCHANGED outsideEval
    \/ AnalyseMisclassified /\ UNCHANGED outsideEval

InitEval == EvalInit /\ DriverIdle /\ ReaderIdle /\ AdapterIdle
        /\ TemplateIdle /\ RunIdle

SpecEval == InitEval /\ [][EvalNext]_vars

\* records handed to the statistics functions
StatRecords ==
    [true_label : {<<"a">>, <<"A">>, <<"b">>},
     pred_label : {<<"a">>, <<"A">>, <<"b">>},
     pred_confidence : {50, 90}]

StatLists ==
    {[i \in 1..Len(l) |->
         [filename |-> i, true_label |-> l[i].true_label,
          pred_label |-> l[i].pred_label,
          pred_confidence |-> l[i].pred_confidence]] :
       l \in UNION {[1..n -> StatRecords] : n \in 0..MaxRows}}

\* the statistics functions on any list, the empty one included
StatsInit ==
    /\ eval_pc = "overall"
    /\ csv_file = NoTable
    /\ enc_index = 1
    /\ enc_tried = <<>>
    /\ predictions \in StatLists
    /\ accuracy_info = NotComputed
    /\ crop_statistics = <<>>
    /\ crop_report = <<>>
    /\ misclassified_images = <<>>

StatsNext ==
    \/ CalcOverall /\ UNCHANGED outsideEval
    \/ CalcPerCrop /\ UNCHANGED outsideEval
    \/ AnalyseMisclassified /\ UNCHANGED outsideEval

InitStats == StatsInit /\ DriverIdle /\ ReaderIdle /\ AdapterIdle
        /\ TemplateIdle /\ RunIdle

SpecStats == InitStats /\ [][StatsNext]_vars

\* the rows of a label table: names with and without padding, labels
\* filled, empty, blank, or absent because the row has no second cell
LabelRows ==
    [filename : {<<"1">>, <<"1", " ">>, <<"2">>},
     label : {Str(<<"a">>), Str(<<>>), Str(<<" ">>), PyNone}]

\* what an attempt yields before it fails: nothing, or a row whose bytes
\* decoded to other text than they do under the encoding that succeeds
PartialReads == {<<>>, <<[filename |-> <<"?">>, label |-> Str(<<"a">>)]>>}

\* how the label file decodes: <<first_ok, partial>>
LabelReadBehaviours ==
    {<<1, <<>> >>} \cup {<<k, p>> : k \in {3, 5}, p \in PartialReads}

AnswerTables ==
    {NoAnswerCsv} \cup
    {[exists |-> TRUE, rows |-> rows, first_ok |-> b[1], partial |-> b[2]] :
        rows \in UNION {[1..n -> LabelRows] : n \in 0..MaxRows},
        b \in LabelReadBehaviours}

ReaderInit ==
    /\ reader_pc = "start"
    /\ answer_csv \in AnswerTables
    /\ reader_enc = 1
    /\ reader_tried = <<>>
    /\ labels_dict = <<>>
    /\ successful_encoding = "None"
    /\ warnings = <<>>

ReaderNext ==
    \/ ReaderStart /\ UNCHANGED outsideReader
    \/ LabelAttempt /\ UNCHANGED outsideReader
    \/ LabelHandleError /\ UNCHANGED outsideReader
    \/ ReaderFinish /\ UNCHANGED outsideReader

\* load_predictions_from_csv alone
LoadNext ==
    \/ EvalStart /\ UNCHANGED outsideEval
    \/ ReadAttempt /\ UNCHANGED outsideEval
    \/ HandleDecodeError /\ UNCHANGED outsideEval
    \/ LoadFinish /\ UNCHANGED outsideEval

\* either reader, started on any table
InitReaders ==
    \/ ReaderInit /\ EvalIdle /\ DriverIdle /\ AdapterIdle
        /\ TemplateIdle /\ RunIdle
    \/ EvalInit /\ ReaderIdle /\ DriverIdle /\ AdapterIdle
        /\ TemplateIdle /\ RunIdle

SpecReaders == InitReaders /\ [][ReaderNext \/ LoadNext]_vars

\* the members an answer object may carry
CropMembers ==
    {<<>>} \cup {<<"\"crop\"", ":", v>> : v \in {"\"a\"", "7", "null"}}
ConfidenceMembers ==
    {<<>>} \cup {<<"\"confidence\"", ":", v>> : v \in {"0.9", "\"a\"", "null"}}

ObjectText(mc, mf) ==
    <<"{">> \o mc \o (IF mc # <<>> /\ mf # <<>> THEN <<",">> ELSE <<>>)
        \o mf \o <<"}">>

\* what the model may answer: objects, other JSON values, a truncated
\* object, a bare word, nothing
AnswerBodies ==
    {ObjectText(mc, mf) : mc \in CropMembers, mf \in ConfidenceMembers}
    \cup {<<"[", "]">>, <<"[", "\"a\"", ",", "0.9", "]">>, <<"0.9">>,
          <<"\"a\"">>, <<"null">>, <<"{", "\"crop\"", ":", "\"a\"">>,
          <<"a">>, <<>>}

\* what may stand before and after the answer: nothing, whitespace, a code
\* fence (the lexeme of three backquotes is written FENCE), prose
Prefixes == {<<>>, <<" ">>, <<"FENCE", "json", "\n">>, <<"Sure", ":", " ">>}
Suffixes == {<<>>, <<"\n">>, <<"\n", "FENCE">>, <<" ", "Done">>}

ApiResponses ==
    {[kind |-> k, content |-> <<>>] :
        k \in {"raises", "no_choices", "content_none"}}
    \cup {[kind |-> "content", content |-> p \o b \o q] :
            p \in Prefixes, b \in AnswerBodies, q \in Suffixes}

AdapterInit ==
    /\ api_pc = "start"
    /\ api_response \in ApiResponses
    /\ response_text = <<>>
    /\ api_result = ReturnedNone

AdapterNext ==
    \/ ApiCall /\ UNCHANGED outsideAdapter
    \/ ExtractText /\ UNCHANGED outsideAdapter
    \/ ParseJson /\ UNCHANGED outsideAdapter
    \/ HandleApiError /\ UNCHANGED outsideAdapter

InitAdapter == AdapterInit /\ DriverIdle /\ EvalIdle /\ ReaderIdle
        /\ TemplateIdle /\ RunIdle

SpecAdapter == InitAdapter /\ [][AdapterNext]_vars

\* an answer.csv filled in earlier
OldAnswerFile ==
    [exists |-> TRUE, rows |-> <<[filename |-> 1, label |-> Str(<<"a">>)]>>]

TemplateInit ==
    /\ template_pc = "start"
    /\ template_dir \in TemplateDirs
    /\ template_files = <<>>
    /\ answer_file \in {NoAnswerFile, OldAnswerFile}

TemplateNext ==
    \/ TemplateScan /\ UNCHANGED outsideTemplate
    \/ TemplateWrite /\ UNCHANGED outsideTemplate

InitTemplate ==
    TemplateInit /\ DriverIdle /\ EvalIdle /\ ReaderIdle /\ AdapterIdle
        /\ RunIdle

SpecTemplate == InitTemplate /\ [][TemplateNext]_vars

\* answer.csv as run_all may find it: missing, header only, the untouched
\* template, filled in, filled in but for one row, with a row cut short
RunAnswerFiles ==
    {NoAnswerFile,
     [exists |-> TRUE, rows |-> <<>>],
     [exists |-> TRUE, rows |-> <<[filename |-> 1, label |-> Str(<<>>)]>>],
     OldAnswerFile,
     [exists |-> TRUE,
      rows |-> <<[filename |-> 1, label |-> Str(<<"a">>)],
                 [filename |-> 2, label |-> Str(<<" ">>)]>>],
     [exists |-> TRUE, rows |-> <<[filename |-> 1, label |-> PyNone]>>]}

RunAllInit ==
    /\ run_pc = "start"
    /\ stages = <<>>
    /\ answer_file \in RunAnswerFiles
    /\ template_pc = "idle"
    /\ template_dir = NoDir
    /\ template_files = <<>>
    /\ driver_pc = "idle"
    /\ answers_dict = <<>>
    /\ image_files = <<>>
    /\ index = 1
    /\ all_predictions = <<>>
    /\ skipped = <<>>
    /\ api_calls = <<>>
    /\ predictions_file \in {NoFile, OldFile}
    /\ writes = 0

RunAllNext ==
    \/ RunAllStart
    \/ RunAfterTemplate
    \/ RunAfterClassify
    \/ RunAfterEvaluate
    \/ TemplateNext
    \/ DriverNext
    \/ EvalNext

InitRunAll == RunAllInit /\ EvalIdle /\ ReaderIdle /\ AdapterIdle

SpecRunAll == InitRunAll /\ [][RunAllNext]_vars

----------------------------------------------------------------------------
(* Properties of the batch driver (SpecDriver) *)

DriverFinished == driver_pc \in {"saved", "nothing_processed"}

RecordsOf(f) == {j \in 1..Len(all_predictions) : all_predictions[j].filename = f}

Reported(f) == \E j \in 1..Len(skipped) : skipped[j] = f

\* C1: when the loop has finished, every image whose filename is a key of
\* the label mapping has exactly one record, every other image has none, and
\* an image is reported "no label" only when its filename is not a key.
C1_DriverJoin ==
    DriverFinished =>
        \A i \in 1..Len(image_files) :
            LET f == image_files[i]
            IN /\ f \in DOMAIN answers_dict => Cardinality(RecordsOf(f)) = 1
               /\ f \notin DOMAIN answers_dict => RecordsOf(f) = {}
               /\ Reported(f) => f \notin DOMAIN answers_dict

\* C2: whatever the classifier does for a labeled image, the driver does not
\* abort: it holds one record for every classified image, goes on with the
\* loop and ends in the persistence step.
C2_ErrorsIsolated ==
    api_calls # <<>> =>
        /\ driver_pc \in {"loop", "saved"}
        /\ Len(all_predictions) = Len(api_calls)
        /\ driver_pc = "saved" => index > Len(image_files)

\* C3: in every record the driver builds, pred_label = "ERROR" implies
\* pred_confidence = 0.0.
C3_ErrorHasZeroConfidence ==
    \A j \in 1..Len(all_predictions) :
        all_predictions[j].pred_label = Str(ERROR)
            => all_predictions[j].pred_confidence = Num(0)

----------------------------------------------------------------------------
(* Properties of the evaluation (SpecEval, SpecStats) *)

\* the other case of a letter, written out independently of str.lower()
SwapCaseChar(c) ==
    CASE c = "a" -> "A" [] c = "A" -> "a"
      [] c = "b" -> "B" [] c = "B" -> "b"
      [] c = "e" -> "E" [] c = "E" -> "e"
      [] c = "r" -> "R" [] c = "R" -> "r"
      [] c = "o" -> "O" [] c = "O" -> "o"
      [] c = "j" -> "J" [] c = "J" -> "j"
      [] c = "p" -> "P" [] c = "P" -> "p"
      [] c = "g" -> "G" [] c = "G" -> "g"
      [] c = "n" -> "N" [] c = "N" -> "n"
      [] c = "i" -> "I" [] c = "I" -> "i"
      [] c = "f" -> "F" [] c = "F" -> "f"
      [] c = "m" -> "M" [] c = "M" -> "m"
      [] OTHER -> c

SameIgnoringCase(x, y) ==
    /\ Len(x) = Len(y)
    /\ \A i \in 1..Len(x) : y[i] \in {x[i], SwapCaseChar(x[i])}

\* every way of changing the case of some letters of x
CaseVariants(x) ==
    {y \in [1..Len(x) -> {x[i] : i \in 1..Len(x)}
                         \cup {SwapCaseChar(x[i]) : i \in 1..Len(x)}] :
        SameIgnoringCase(x, y)}

IsErrorRow(row) == row.pred_label = Str(ERROR)
NotErrorRow(row) == ~IsErrorRow(row)

\* the table without its ERROR rows, as records
WithoutErrorRows(rows) ==
    LET kept == SelectSeq(rows, NotErrorRow)
    IN [i \in 1..Len(kept) |->
           [filename |-> kept[i].filename,
            true_label |-> kept[i].true_label,
            pred_label |-> kept[i].pred_label.s,
            pred_confidence |-> kept[i].pred_confidence.n]]

OverallKnown == eval_pc \in {"per_crop", "misclassified", "done"}
PerCropKnown == eval_pc \in {"misclassified", "done"}

\* C4: every statistic is what the same computation gives on the table with
\* its ERROR rows removed: the total counts the non-ERROR rows only, and no
\* ERROR row is among the misclassified.
C4_ErrorRowsExcluded ==
    LET kept == WithoutErrorRows(csv_file.rows)
    IN /\ OverallKnown =>
            /\ accuracy_info = calculate_overall_accuracy(kept)
            /\ accuracy_info.total =
                 Cardinality({i \in 1..Len(csv_file.rows) :
                                 ~IsErrorRow(csv_file.rows[i])})
       /\ PerCropKnown =>
            crop_statistics = calculate_per_crop_statistics(kept)
       /\ eval_pc = "done" =>
            /\ misclassified_images = find_misclassified_images(kept)
            /\ \A j \in 1..Len(misclassified_images) :
                  misclassified_images[j].pred_label # ERROR

C4_Witness ==
    /\ eval_pc = "done"
    /\ Len(csv_file.rows) = 3
    /\ IsErrorRow(csv_file.rows[1])
    /\ IsErrorRow(csv_file.rows[3])
    /\ accuracy_info.total = 1
    /\ Len(misclassified_images) = 1

EvalEnded ==
    eval_pc \in {"file_not_found", "raised_ValueError",
                 "raised_float_ValueError", "nothing_to_evaluate", "done"}

\* C5: a table that exists, decodes and holds rows, all of them ERROR, ends
\* the evaluation with "nothing to evaluate", not with the ValueError of
\* load_predictions_from_csv.
C5_AllErrorIsNothingToEvaluate ==
    ( /\ EvalEnded
      /\ csv_file.exists
      /\ csv_file.first_ok <= Len(encodings_to_try)
      /\ csv_file.rows # <<>>
      /\ \A i \in 1..Len(csv_file.rows) : IsErrorRow(csv_file.rows[i]) )
    => eval_pc = "nothing_to_evaluate"

CorrectIgnoringCase(preds) ==
    {i \in 1..Len(preds) :
        SameIgnoringCase(preds[i].true_label, preds[i].pred_label)}

\* C6: total is the number of records, correct the number of records whose
\* labels are equal ignoring case, accuracy is 100 * correct / total, and the
\* empty list gives total 0, correct 0, accuracy 0.0.
C6_OverallAccuracy ==
    OverallKnown =>
        LET n == Len(predictions)
            c == Cardinality(CorrectIgnoringCase(predictions))
        IN /\ accuracy_info.total = n
           /\ accuracy_info.correct = c
           /\ n > 0 => accuracy_info.accuracy[1] * n
                          = 100 * c * accuracy_info.accuracy[2]
           /\ n = 0 => accuracy_info.accuracy = <<0, 1>>

C6_Witness ==
    /\ eval_pc = "per_crop"
    /\ Len(predictions) = 3
    /\ accuracy_info.correct = 2
    /\ accuracy_info.accuracy = <<200, 3>>
    /\ \E i \in 1..3 : /\ predictions[i].true_label # predictions[i].pred_label
                       /\ i \in CorrectIgnoringCase(predictions)

SameCategory(preds, k) ==
    {m \in 1..Len(preds) : SameIgnoringCase(preds[m].true_label, k)}

\* C7: records whose true_label differ only in letter case are counted in
\* one CategoryStatistics entry, with their combined total.
C7_CategoriesIgnoreCase ==
    PerCropKnown =>
        \A i \in 1..Len(predictions) :
            LET entries == {k \in DOMAIN crop_statistics :
                               SameIgnoringCase(k, predictions[i].true_label)}
            IN /\ Cardinality(entries) = 1
               /\ \A k \in entries :
                     crop_statistics[k].total
                         = Cardinality(SameCategory(predictions, k))

\* the lists that differ from preds in the case of one label
OneLabelRecased(preds) ==
    UNION {{[preds EXCEPT ![i].true_label = v] :
               v \in CaseVariants(preds[i].true_label)}
           \cup {[preds EXCEPT ![i].pred_label = v] :
                    v \in CaseVariants(preds[i].pred_label)} :
           i \in 1..Len(preds)}

\* C8: changing the letter case of a true_label or a pred_label changes
\* neither the overall correct count nor the length of the misclassified
\* list.
C8_CaseChangeKeepsCounts ==
    eval_pc = "done" =>
        \A q \in OneLabelRecased(predictions) :
            /\ calculate_overall_accuracy(q).correct = accuracy_info.correct
            /\ Len(find_misclassified_images(q)) = Len(misclassified_images)

C8_Witness ==
    /\ eval_pc = "done"
    /\ Len(predictions) = 2
    /\ predictions[1].true_label = predictions[1].pred_label
    /\ predictions[2].true_label # predictions[2].pred_label
    /\ accuracy_info.correct = 2
    /\ \E q \in OneLabelRecased(predictions) :
          q[1].true_label # q[1].pred_label

RECURSIVE SumTotal(_, _)
SumTotal(stats, keys) ==
    IF keys = {} THEN 0
    ELSE LET k == CHOOSE x \in keys : TRUE
         IN stats[k].total + SumTotal(stats, keys \ {k})

RECURSIVE SumCorrect(_, _)
SumCorrect(stats, keys) ==
    IF keys = {} THEN 0
    ELSE LET k == CHOOSE x \in keys : TRUE
         IN stats[k].correct + SumCorrect(stats, keys \ {k})

\* exact sum of two fractions, and a fraction divided by k > 0
FracAdd(f, g) == Frac(f[1] * g[2] + g[1] * f[2], f[2] * g[2])
FracOver(f, k) == Frac(f[1], f[2] * k)

\* the sum over the categories of accuracy * total
RECURSIVE SumWeighted(_, _)
SumWeighted(stats, keys) ==
    IF keys = {} THEN <<0, 1>>
    ELSE LET k == CHOOSE x \in keys : TRUE
         IN FracAdd(FracTimes(stats[k].accuracy, stats[k].total),
                    SumWeighted(stats, keys \ {k}))

\* C9: the categories' totals add up to the overall total, their correct
\* counts to the overall correct, the accuracies weighted by the totals give
\* the overall accuracy, and every category has total >= 1 and
\* 0 <= correct <= total.
C9_CategoriesRecombine ==
    eval_pc = "done" =>
        LET keys == DOMAIN crop_statistics
        IN /\ SumTotal(crop_statistics, keys) = accuracy_info.total
           /\ SumCorrect(crop_statistics, keys) = accuracy_info.correct
           /\ accuracy_info.total > 0 =>
                FracOver(SumWeighted(crop_statistics, keys),
                         accuracy_info.total) = accuracy_info.accuracy
           /\ \A k \in keys :
                 /\ crop_statistics[k].total >= 1
                 /\ crop_statistics[k].correct >= 0
                 /\ crop_statistics[k].correct <= crop_statistics[k].total

C9_Witness ==
    /\ eval_pc = "done"
    /\ Cardinality(DOMAIN crop_statistics) = 2
    /\ accuracy_info.total = 3
    /\ accuracy_info.correct = 1
    /\ \E k \in DOMAIN crop_statistics :
          crop_statistics[k].total = 2 /\ crop_statistics[k].correct = 1

DiffersIgnoringCase(prediction) ==
    ~SameIgnoringCase(prediction.true_label, prediction.pred_label)

\* C10: the misclassified list is the records whose labels differ ignoring
\* case, in the order of the input list, and its length is total - correct.
C10_MisclassifiedList ==
    eval_pc = "done" =>
        /\ misclassified_images = SelectSeq(predictions, DiffersIgnoringCase)
        /\ Len(misclassified_images)
             = accuracy_info.total - accuracy_info.correct

C10_Witness ==
    /\ eval_pc = "done"
    /\ Len(predictions) = 3
    /\ Len(misclassified_images) = 2
    /\ misclassified_images[1].filename = 1
    /\ misclassified_images[2].filename = 3
    /\ predictions[2].true_label # predictions[2].pred_label

\* the mean of pred_confidence over the records of category k, in hundredths
MeanConfidence(preds, k) ==
    LET idx == {i \in 1..Len(preds) : preds[i].true_label = k}
        RECURSIVE Sum(_)
        Sum(S) == IF S = {} THEN 0
                  ELSE LET i == CHOOSE x \in S : TRUE
                       IN preds[i].pred_confidence + Sum(S \ {i})
    IN <<Sum(idx), Cardinality(idx)>>

\* C11: the avg_confidence reported for a category is on the percentage
\* scale: 100 times the mean of pred_confidence over its records (90% for
\* one record of confidence 0.9, 50% for one of 0.5).
C11_AvgConfidenceIsPercent ==
    PerCropKnown =>
        \A i \in 1..Len(crop_report) :
            crop_report[i].avg_confidence
                = FormatOneDecimal(MeanConfidence(predictions,
                                                  crop_report[i].crop_name))

----------------------------------------------------------------------------
(* Properties of the table readers (SpecReaders) *)

ReaderEnded ==
    reader_pc \in {"returned", "raised_FileNotFoundError",
                   "raised_ValueError", "raised_AttributeError"}

NonBlankCell(c) ==
    c.t = "str" /\ \E i \in 1..Len(c.s) : c.s[i] \notin Whitespace

\* the rows of the table that carry a label
LabelledRows ==
    {i \in 1..Len(answer_csv.rows) : NonBlankCell(answer_csv.rows[i].label)}

\* the rows of the table whose label cell is empty or blank
BlankRows ==
    {i \in 1..Len(answer_csv.rows) :
        answer_csv.rows[i].label.t = "str"
        /\ ~NonBlankCell(answer_csv.rows[i].label)}

\* C12: load_answers_from_csv raises FileNotFoundError when the path does
\* not exist; a mapping it returns is non-empty, holds only rows whose
\* label is non-empty after trimming, and every blank-label row was warned
\* about; when no row with a non-blank label is read it raises ValueError.
C12_LabelReaderOutcome ==
    /\ (ReaderEnded /\ ~answer_csv.exists)
           => reader_pc = "raised_FileNotFoundError"
    /\ reader_pc = "returned" =>
           /\ DOMAIN labels_dict # {}
           /\ \A k \in DOMAIN labels_dict :
                  /\ NonBlankCell(Str(labels_dict[k]))
                  /\ \E i \in LabelledRows :
                         /\ Strip(answer_csv.rows[i].filename) = k
                         /\ Strip(answer_csv.rows[i].label.s) = labels_dict[k]
           /\ \A i \in BlankRows :
                  \E w \in 1..Len(warnings) :
                      warnings[w] = Strip(answer_csv.rows[i].filename)
    /\ (ReaderEnded /\ answer_csv.exists /\ LabelledRows = {})
           => reader_pc = "raised_ValueError"

----------------------------------------------------------------------------
(* Properties of the vision adapter (SpecAdapter) *)

\* a parsed value is a structured object with both fields
HasBothFields(v) ==
    v.kind = "object" /\ v.crop # Missing /\ v.confidence # Missing

\* C13: call_vision_api returns None for every transport or service error
\* and for every response that is not an object carrying crop and
\* confidence (valid JSON that is no object, or an object lacking a field,
\* included); it never returns such a value and no exception escapes.
C13_NonConformingIsFailure ==
    /\ api_pc \in {"idle", "start", "extract", "parse", "except", "returned"}
    /\ api_pc = "returned" =>
           /\ api_result = ReturnedNone \/ HasBothFields(api_result)
           /\ (api_response.kind # "content"
               \/ ~HasBothFields(json_loads(api_response.content)))
                  => api_result = ReturnedNone

\* the wrappings of an answer: a code fence around it, prose before it,
\* prose after it
Wrappings ==
    {<<p, q>> \in Prefixes \X Suffixes :
        \E i \in 1..Len(p \o q) : (p \o q)[i] \notin Whitespace}

\* a parsed value is an object whose crop is text and whose confidence is
\* a number
IsAnswerObject(v) ==
    v.kind = "object" /\ v.crop.t = "str" /\ v.confidence.t = "num"

\* C14: a response whose content is a valid object with crop and confidence
\* surrounded by code fences or extra prose yields a successful result with
\* that object's crop and confidence, not a failure.
C14_WrappingStripped ==
    api_pc = "returned" =>
        \A w \in Wrappings :
            \A b \in AnswerBodies :
                (/\ api_response.kind = "content"
                 /\ api_response.content = w[1] \o b \o w[2]
                 /\ IsAnswerObject(json_loads(b)))
                    => api_result = json_loads(b)

----------------------------------------------------------------------------
(* Properties of the batch driver, continued (SpecDriver) *)

\* C15: the predictions file is written at most once per run and only after
\* the last image has been handled, from the accumulated records; when the
\* loop ends with no record, nothing is written, an existing predictions
\* file stays as it was, and the run reports that nothing was processed.
C15_SingleWriteAfterLoop ==
    [][/\ (writes' # writes \/ predictions_file' # predictions_file) =>
              /\ writes = 0
              /\ writes' = 1
              /\ driver_pc = "loop"
              /\ index > Len(image_files)
              /\ Len(api_calls) + Len(skipped) = Len(image_files)
              /\ all_predictions # <<>>
              /\ predictions_file'.exists
              /\ Len(predictions_file'.rows) = Len(all_predictions)
              /\ \A i \in 1..Len(all_predictions) :
                     predictions_file'.rows[i].filename
                         = all_predictions[i].filename
       /\ (driver_pc = "loop" /\ driver_pc' \notin {"loop", "crashed"}
           /\ all_predictions = <<>>) =>
              /\ driver_pc' = "nothing_processed"
              /\ predictions_file' = predictions_file
              /\ writes' = 0
      ]_vars

\* a run over some images, none of them labelled, beside an older table
C15_Witness ==
    /\ driver_pc = "nothing_processed"
    /\ image_files # <<>>
    /\ predictions_file = OldFile
    /\ writes = 0

----------------------------------------------------------------------------
(* Properties of the template generator (SpecTemplate) *)

\* the allow-list of the template generator
TemplateAllowList ==
    {<<".", "j", "p", "g">>, <<".", "j", "p", "e", "g">>,
     <<".", "p", "n", "g">>, <<".", "b", "m", "p">>, <<".", "g", "i", "f">>}

\* the names of the folder that are files with an allow-listed extension
QualifyingFiles ==
    {f \in Filenames :
        /\ template_dir.exists
        /\ template_dir.entries[f].present
        /\ template_dir.entries[f].is_file
        /\ \E e \in TemplateAllowList :
               SameIgnoringCase(e, template_dir.entries[f].suffix)}

\* C16: for a folder with N files whose extension is, ignoring case, in the
\* allow-list, the written template has exactly N rows, one per such file,
\* in ascending filename order, every label empty; when N = 0 or the folder
\* is missing nothing is written and an existing answer file stays as it is.
C16_TemplateRows ==
    [][/\ template_pc' = "done" =>
              /\ QualifyingFiles # {}
              /\ answer_file'.exists
              /\ Len(answer_file'.rows) = Cardinality(QualifyingFiles)
              /\ \A f \in QualifyingFiles :
                     \E i \in 1..Len(answer_file'.rows) :
                         answer_file'.rows[i].filename = f
              /\ \A i \in 1..Len(answer_file'.rows) :
                     /\ answer_file'.rows[i].label = Str(<<>>)
                     /\ \A j \in 1..(i - 1) :
                            answer_file'.rows[j].filename
                                < answer_file'.rows[i].filename
       /\ QualifyingFiles = {} =>
              /\ answer_file' = answer_file
              /\ template_pc' \in {"start", "no_images"}
       /\ (QualifyingFiles # {} /\ template_pc = "create")
              => template_pc' = "done"
      ]_vars

\* a template of two rows, one of them for a file with an upper-case
\* extension, from a folder that also holds an entry that does not qualify
C16_Witness ==
    /\ template_pc = "done"
    /\ Len(answer_file.rows) = 2
    /\ \E f \in QualifyingFiles :
           template_dir.entries[f].suffix = <<".", "P", "N", "G">>
    /\ \E f \in Filenames \ QualifyingFiles : template_dir.entries[f].present

----------------------------------------------------------------------------
(* Properties of the encoding fallback (SpecReaders) *)

FallbackOrder == <<"utf-8-sig", "utf-8", "cp949", "euc-kr">>

\* the encodings tried so far are the first ones of the fixed order
InFallbackOrder(tried) ==
    /\ Len(tried) <= Len(FallbackOrder)
    /\ \A i \in 1..Len(tried) : tried[i] = FallbackOrder[i]

\* the number of attempts of a loop that stops at the first success
AttemptsNeeded(first_ok) ==
    IF first_ok <= Len(FallbackOrder) THEN first_ok ELSE Len(FallbackOrder)

\* the mapping the rows of the whole label table give, and nothing else
LabelsOfTable ==
    LET keys == {Strip(answer_csv.rows[i].filename) : i \in LabelledRows}
        last(k) == CHOOSE i \in LabelledRows :
                      /\ Strip(answer_csv.rows[i].filename) = k
                      /\ \A j \in LabelledRows :
                             Strip(answer_csv.rows[j].filename) = k => j <= i
    IN [k \in keys |-> Strip(answer_csv.rows[last(k)].label.s)]

\* C17: both readers try utf-8-sig, utf-8, cp949, euc-kr in this order and
\* stop at the first attempt that reads the whole file; what they return
\* comes from that attempt alone, the rows gathered by an attempt that
\* failed being discarded; when every attempt fails they raise ValueError.
C17_EncodingFallback ==
    /\ InFallbackOrder(reader_tried)
    /\ InFallbackOrder(enc_tried)
    /\ reader_pc \in {"after_loop", "returned", "raised_ValueError"} =>
           /\ Len(reader_tried) = AttemptsNeeded(answer_csv.first_ok)
           /\ labels_dict =
                  IF answer_csv.first_ok <= Len(FallbackOrder)
                  THEN LabelsOfTable ELSE <<>>
    /\ (reader_pc \in {"returned", "raised_ValueError"}
        /\ answer_csv.first_ok > Len(FallbackOrder))
           => reader_pc = "raised_ValueError"
    /\ eval_pc \in {"after_loop", "overall", "raised_ValueError"} =>
           /\ Len(enc_tried) = AttemptsNeeded(csv_file.first_ok)
           /\ predictions =
                  IF csv_file.first_ok <= Len(FallbackOrder)
                  THEN WithoutErrorRows(csv_file.rows) ELSE <<>>
    /\ (eval_pc \in {"overall", "raised_ValueError"}
        /\ csv_file.first_ok > Len(FallbackOrder))
           => eval_pc = "raised_ValueError"

\* the label reader returned after two attempts that failed, each of them
\* having gathered a row first
C17_Witness ==
    /\ reader_pc = "returned"
    /\ answer_csv.first_ok = 3
    /\ answer_csv.partial # <<>>
    /\ Len(reader_tried) = 3
    /\ Len(answer_csv.rows) >= 2

----------------------------------------------------------------------------
(* Properties of the order of the batch driver (SpecDriver) *)

\* C18: the classifier is invoked on labeled images in strictly ascending
\* filename order, each image at most once; the saved records are in that
\* same order with pairwise distinct filenames; each record is what
\* classify_single_image gives for the image, its label and the outcome of
\* the classifier, so that equal inputs give equal record lists.
C18_DeterministicOrder ==
    /\ \A i, j \in 1..Len(api_calls) : i < j => api_calls[i] < api_calls[j]
    /\ \A j \in 1..Len(api_calls) :
           /\ \E i \in 1..Len(image_files) : image_files[i] = api_calls[j]
           /\ api_calls[j] \in DOMAIN answers_dict
    /\ Len(all_predictions) = Len(api_calls)
    /\ \A j \in 1..Len(all_predictions) :
           \E outcome \in ClassifierOutcomes :
               all_predictions[j] =
                   classify_single_image(api_calls[j],
                                         answers_dict[api_calls[j]], outcome)
    /\ driver_pc = "saved" =>
           /\ Len(predictions_file.rows) = Len(api_calls)
           /\ \A j \in 1..Len(api_calls) :
                  predictions_file.rows[j].filename = api_calls[j]
           /\ \A i, j \in 1..Len(predictions_file.rows) :
                  i # j => predictions_file.rows[i].filename
                               # predictions_file.rows[j].filename

\* a saved run that classified two images and skipped one
C18_Witness ==
    /\ driver_pc = "saved"
    /\ Len(api_calls) >= 2
    /\ skipped # <<>>
    /\ Len(predictions_file.rows) = Len(api_calls)

----------------------------------------------------------------------------
(* Properties of run_all (SpecRunAll) *)

Started(stage) == \E i \in 1..Len(stages) : stages[i] = stage

StartedBefore(a, b) ==
    \E i, j \in 1..Len(stages) : i < j /\ stages[i] = a /\ stages[j] = b

\* C19: when run_all starts the evaluation, the classification was started
\* earlier in the same run and the predictions table the evaluation reads
\* was written by that classification; the classification is started only
\* when the answer file exists and check_answer_file_filled is true; the
\* template generator is started only when the answer file is absent.
C19_StageOrdering ==
    /\ Started("evaluate_accuracy") =>
           /\ StartedBefore("classify_images", "evaluate_accuracy")
           /\ writes = 1
           /\ csv_file =
                  PredictionsTable(save_predictions_to_csv(all_predictions),
                                   <<1, 0>>)
    /\ Started("classify_images") =>
           /\ answer_file.exists
           /\ check_answer_file_filled(answer_file)
    /\ (Started("create_answer_template") /\ template_pc = "start")
           => ~answer_file.exists

====
